---- MODULE Spec2Model ----
(***************************************************************************)
(* Model of the JUnit XML report scripts junit_parser2.py (JUnitXMLParser, *)
(* WordReportGenerator, main) and junit_parser1.py (parse_junit_xml,       *)
(* create_docx_report).                                                    *)
(*                                                                         *)
(* Representation.  A Python string that the code converts or measures     *)
(* (numeric attribute values, marker text) is a sequence of one-character  *)
(* strings; a string the code only copies (names, messages) is a TLA+      *)
(* string.  An Optional value is a sequence of length 0 (None) or 1.       *)
(* An XML element is a record [tag, attrib, text, children]; attrib is a   *)
(* function whose domain is the set of attributes present.  A float is an  *)
(* integer number of thousandths; a quotient is a record [num, den].       *)
(***************************************************************************)
EXTENDS Integers, Sequences, FiniteSets, TLC

VARIABLES script, args, xml, pc, root, test_suites, idx, calls, summary,
          doc, saved, exit_code, stdout, outdir

vars == <<script, args, xml, pc, root, test_suites, idx, calls, summary,
          doc, saved, exit_code, stdout, outdir>>

(***************************************************************************)
(* Bounds of the model.                                                    *)
(***************************************************************************)
MaxSuites == 2

MaxCases == 2

MaxMarkers == 2

MaxCalls == 2

(***************************************************************************)
(* Python values.                                                          *)
(***************************************************************************)
None == <<>>

Some(v) == <<v>>

Return(v) == [raised |-> FALSE, value |-> v]

Raise(e) == [raised |-> TRUE, value |-> e]

Digits == {"0", "1", "2", "3", "4", "5", "6", "7", "8", "9"}

DigitVal(c) ==
    CASE c = "0" -> 0 [] c = "1" -> 1 [] c = "2" -> 2 [] c = "3" -> 3
      [] c = "4" -> 4 [] c = "5" -> 5 [] c = "6" -> 6 [] c = "7" -> 7
      [] c = "8" -> 8 [] c = "9" -> 9

DigitChar(d) ==
    CASE d = 0 -> "0" [] d = 1 -> "1" [] d = 2 -> "2" [] d = 3 -> "3"
      [] d = 4 -> "4" [] d = 5 -> "5" [] d = 6 -> "6" [] d = 7 -> "7"
      [] d = 8 -> "8" [] d = 9 -> "9"

IsDigits(s) == Len(s) > 0 /\ \A i \in 1..Len(s) : s[i] \in Digits

RECURSIVE Dec(_)
Dec(s) == IF s = <<>> THEN 0
          ELSE 10 * Dec(SubSeq(s, 1, Len(s) - 1)) + DigitVal(s[Len(s)])

\* int(s) of a string: an optional sign and decimal digits; anything else
\* raises ValueError.
int(s) ==
    LET signed == Len(s) > 0 /\ s[1] \in {"+", "-"}
        body   == IF signed THEN Tail(s) ELSE s
    IN  IF IsDigits(body)
        THEN Return(IF signed /\ s[1] = "-" THEN 0 - Dec(body) ELSE Dec(body))
        ELSE Raise("ValueError")

\* float(s) for the decimal literals the model draws: digits, optionally a
\* point and at most three more digits; the value is in thousandths.
float(s) ==
    LET signed == Len(s) > 0 /\ s[1] \in {"+", "-"}
        body   == IF signed THEN Tail(s) ELSE s
        dots   == {i \in 1..Len(body) : body[i] = "."}
        sign   == IF signed /\ s[1] = "-" THEN 0 - 1 ELSE 1
    IN  IF dots = {}
        THEN IF IsDigits(body) THEN Return(sign * 1000 * Dec(body))
             ELSE Raise("ValueError")
        ELSE LET p     == CHOOSE i \in dots : TRUE
                 whole == SubSeq(body, 1, p - 1)
                 frac  == SubSeq(body, p + 1, Len(body))
                 pad   == frac \o SubSeq(<<"0", "0", "0">>, 1, 3 - Len(frac))
             IN  IF Cardinality(dots) = 1 /\ Len(frac) <= 3
                    /\ (whole = <<>> \/ IsDigits(whole))
                    /\ (frac = <<>> \/ IsDigits(frac))
                    /\ Len(whole) + Len(frac) > 0
                 THEN Return(sign * (1000 * Dec(whole) + Dec(pad)))
                 ELSE Raise("ValueError")

RECURSIVE NatStr(_)
NatStr(n) == IF n < 10 THEN <<DigitChar(n)>>
             ELSE NatStr(n \div 10) \o <<DigitChar(n % 10)>>

\* str(n) of an int.
str(n) == IF n < 0 THEN <<"-">> \o NatStr(0 - n) ELSE NatStr(n)

RECURSIVE sum(_)
sum(s) == IF s = <<>> THEN 0 ELSE Head(s) + sum(Tail(s))

\* s or default: an empty or absent string is falsy.
\* Variant of OrElse that keeps at most the first 500 characters.
OrElse_Cut(opt, default) ==
    IF opt = None \/ opt[1] = <<>> THEN default
    ELSE SubSeq(opt[1], 1, IF Len(opt[1]) < 500 THEN Len(opt[1]) ELSE 500)

OrElse(opt, default) == IF opt = None \/ opt[1] = <<>> THEN default ELSE opt[1]

(***************************************************************************)
(* xml.etree.ElementTree                                                   *)
(***************************************************************************)
Element(tag, attrib, text, children) ==
    [tag |-> tag, attrib |-> attrib, text |-> text, children |-> children]

\* elem.get(key, default) and elem.attrib.get(key, default)
get(elem, key, default) ==
    IF key \in DOMAIN elem.attrib THEN elem.attrib[key] ELSE default

\* elem.findall(tag): the direct children with that tag, in document order
findall(elem, tag) == SelectSeq(elem.children, LAMBDA c : c.tag = tag)

\* elem.find(tag): the first direct child with that tag, or None
find(elem, tag) ==
    LET m == findall(elem, tag) IN IF m = <<>> THEN None ELSE Some(m[1])

\* ET.parse(path).getroot()
ET_parse(file) ==
    IF file.wellformed THEN Return(file.root) ELSE Raise("ParseError")

(***************************************************************************)
(* junit_parser2.py: the data classes and JUnitXMLParser                   *)
(***************************************************************************)
TestCase(name, classname, time, status, failure_message, failure_details, skipped_message) ==
    [name |-> name, classname |-> classname, time |-> time, status |-> status,
     failure_message |-> failure_message, failure_details |-> failure_details,
     skipped_message |-> skipped_message]

\* Variant of TestSuite that recounts tests from the cases.
TestSuite_Recount(name, tests, failures, errors, skipped, time, test_cases) ==
    [name |-> name, tests |-> Len(test_cases), failures |-> failures,
     errors |-> errors, skipped |-> skipped, time |-> time,
     test_cases |-> test_cases]

TestSuite(name, tests, failures, errors, skipped, time, test_cases) ==
    [name |-> name, tests |-> tests, failures |-> failures, errors |-> errors,
     skipped |-> skipped, time |-> time, test_cases |-> test_cases]

\* Variant of NoDetails: no placeholder.
NoDetails_Empty == <<>>

NoDetails == <<"N", "o", " ", "d", "e", "t", "a", "i", "l", "s">>

\* The status and the message fields of a testcase element (lines 104-125).
\* Variant of StatusOf that looks for an error marker first.
StatusOf_ErrorFirst(testcase_elem, name, classname, time) ==
    LET failure_elem == find(testcase_elem, "failure")
        error_elem   == find(testcase_elem, "error")
        skipped_elem == find(testcase_elem, "skipped")
    IN  IF error_elem # None
        THEN TestCase(name, classname, time, "error",
                      Some(get(error_elem[1], "message", "No message")),
                      Some(OrElse(error_elem[1].text, NoDetails)), None)
        ELSE IF failure_elem # None
        THEN TestCase(name, classname, time, "failed",
                      Some(get(failure_elem[1], "message", "No message")),
                      Some(OrElse(failure_elem[1].text, NoDetails)), None)
        ELSE IF skipped_elem # None
        THEN TestCase(name, classname, time, "skipped", None, None,
                      Some(get(skipped_elem[1], "message", "Test skipped")))
        ELSE TestCase(name, classname, time, "passed", None, None, None)

StatusOf(testcase_elem, name, classname, time) ==
    LET failure_elem == find(testcase_elem, "failure")
        error_elem   == find(testcase_elem, "error")
        skipped_elem == find(testcase_elem, "skipped")
    IN  IF failure_elem # None
        THEN TestCase(name, classname, time, "failed",
                      Some(get(failure_elem[1], "message", "No message")),
                      Some(OrElse(failure_elem[1].text, NoDetails)), None)
        ELSE IF error_elem # None
        THEN TestCase(name, classname, time, "error",
                      Some(get(error_elem[1], "message", "No message")),
                      Some(OrElse(error_elem[1].text, NoDetails)), None)
        ELSE IF skipped_elem # None
        THEN TestCase(name, classname, time, "skipped", None, None,
                      Some(get(skipped_elem[1], "message", "Test skipped")))
        ELSE TestCase(name, classname, time, "passed", None, None, None)

\* JUnitXMLParser._parse_testcase: the TestCase, or the ValueError of float().
_parse_testcase(testcase_elem) ==
    LET name      == get(testcase_elem, "name", "Unknown")
        classname == get(testcase_elem, "classname", "Unknown")
        time      == float(get(testcase_elem, "time", <<"0">>))
    IN  IF time.raised THEN time
        ELSE Return(StatusOf(testcase_elem, name, classname, time.value))

\* The loop of lines 92-94: the cases parsed so far, or the first error.
RECURSIVE ParseCases(_)
ParseCases(elems) ==
    IF elems = <<>> THEN Return(<<>>)
    ELSE LET first == _parse_testcase(Head(elems))
         IN  IF first.raised THEN first
             ELSE LET rest == ParseCases(Tail(elems))
                  IN  IF rest.raised THEN rest
                      ELSE Return(<<first.value>> \o rest.value)

\* The default of an absent numeric attribute of a suite (lines 86-90).
\* Variant of SuiteDefault: a non-zero default.
SuiteDefault_One == <<"1">>

SuiteDefault == <<"0">>

\* The default of an absent suite name (line 85).
SuiteNameDefault == "Unknown"

\* JUnitXMLParser._parse_testsuite: conversions in source order, so the
\* first attribute that does not convert decides the error.
_parse_testsuite(testsuite_elem) ==
    LET name     == get(testsuite_elem, "name", SuiteNameDefault)
        tests    == int(get(testsuite_elem, "tests", SuiteDefault))
        failures == int(get(testsuite_elem, "failures", SuiteDefault))
        errors   == int(get(testsuite_elem, "errors", SuiteDefault))
        skipped  == int(get(testsuite_elem, "skipped", SuiteDefault))
        time     == float(get(testsuite_elem, "time", SuiteDefault))
        cases    == ParseCases(findall(testsuite_elem, "testcase"))
    IN  IF tests.raised THEN tests
        ELSE IF failures.raised THEN failures
        ELSE IF errors.raised THEN errors
        ELSE IF skipped.raised THEN skipped
        ELSE IF time.raised THEN time
        ELSE IF cases.raised THEN cases
        ELSE Return(TestSuite(name, tests.value, failures.value, errors.value,
                              skipped.value, time.value, cases.value))

(***************************************************************************)
(* junit_parser1.py: parse_junit_xml                                       *)
(***************************************************************************)
\* int(elem.attrib.get(key, default)) with an int default: the int of an
\* int is that int.
\* Variant of int_or whose default is always 0.
int_or_Zero(elem, key, default) ==
    IF key \in DOMAIN elem.attrib THEN int(elem.attrib[key]) ELSE Return(0)

int_or(elem, key, default) ==
    IF key \in DOMAIN elem.attrib THEN int(elem.attrib[key]) ELSE Return(default)

\* One entry of results (lines 13-38).
Result1(testcase) ==
    LET name      == get(testcase, "name", "")
        classname == get(testcase, "classname", "")
        time      == get(testcase, "time", <<"0">>)
        failure   == find(testcase, "failure")
        error     == find(testcase, "error")
        base      == [name |-> name, classname |-> classname, time |-> time,
                      status |-> "passed", message |-> "", details |-> <<>>]
    IN  IF failure # None
        THEN [base EXCEPT !.status = "failed",
                          !.message = get(failure[1], "message", ""),
                          !.details = OrElse(failure[1].text, <<>>)]
        ELSE IF error # None
        THEN [base EXCEPT !.status = "error",
                          !.message = get(error[1], "message", ""),
                          !.details = OrElse(error[1].text, <<>>)]
        ELSE IF find(testcase, "skipped") # None
        THEN [base EXCEPT !.status = "skipped"]
        ELSE base

Results1(elems) == [i \in 1..Len(elems) |-> Result1(elems[i])]

\* parse_junit_xml applied to the root of the tree: the summary dict, or
\* the ValueError of the first int() that fails (lines 11-48).  The root
\* tag is never inspected.
parse_junit_xml(root_elem) ==
    LET results    == Results1(findall(root_elem, "testcase"))
        suite_name == get(root_elem, "name", "TestSuite")
        total      == int_or(root_elem, "tests", Len(results))
        failures   == int_or(root_elem, "failures", 0)
        errors     == int_or(root_elem, "errors", 0)
        skipped    == int_or(root_elem, "skipped", 0)
    IN  IF total.raised THEN total
        ELSE IF failures.raised THEN failures
        ELSE IF errors.raised THEN errors
        ELSE IF skipped.raised THEN skipped
        ELSE Return([suite_name |-> suite_name, total |-> total.value,
                     failures |-> failures.value, errors |-> errors.value,
                     skipped |-> skipped.value,
                     time |-> get(root_elem, "time", <<"0">>),
                     results |-> results])

(***************************************************************************)
(* The input files the model draws.                                        *)
(***************************************************************************)
\* _add_failed_test_details, line 307
TruncLen == 500

\* _add_test_suite_section, line 284
TableThreshold == 10

EmptyAttrib == [k \in {} |-> <<>>]

Attr(key, opt) == IF opt = None THEN EmptyAttrib ELSE key :> opt[1]

Text(n) == [i \in 1..n |-> IF i % 3 = 1 THEN "a" ELSE IF i % 3 = 2 THEN "b" ELSE "c"]

SeqsUpTo(S, n) == UNION {[1..k -> S] : k \in 0..n}

MarkerTags == {"failure", "error", "skipped", "system-out"}

Marker(tag, message, text) == Element(tag, Attr("message", message), text, <<>>)

PlainMarker(tag) == Marker(tag, Some("boom"), Some(Text(2)))

DetailTexts ==
    {None, Some(<<>>), Some(Text(1)), Some(Text(TruncLen - 1)),
     Some(Text(TruncLen)), Some(Text(TruncLen + 1)), Some(Text(TruncLen + 3))}

Case(attrib, children) == Element("testcase", attrib, None, children)

CaseAttrib(name, classname, time) ==
    Attr("name", name) @@ Attr("classname", classname) @@ Attr("time", time)

TimeTexts == {<<"0">>, <<"0", ".", "2", "5">>, <<"1", ".", "5">>, <<"a", "b", "c">>}

NamedCase(name, children) ==
    Case(CaseAttrib(Some(name), Some("pkg.C"), Some(<<"0", ".", "2", "5">>)), children)

CasesByMarkers ==
    {NamedCase("t1", [i \in DOMAIN ts |-> PlainMarker(ts[i])]) :
        ts \in SeqsUpTo(MarkerTags, MaxMarkers)}

CasesByText ==
    {NamedCase("t1", <<Marker(tag, message, text)>>) :
        tag \in {"failure", "error"}, message \in {None, Some(""), Some("boom")},
        text \in DetailTexts}
    \cup {NamedCase("t1", <<Marker("skipped", message, None)>>) :
            message \in {None, Some(""), Some("later")}}

CasesByAttrib ==
    {Case(CaseAttrib(name, classname, time), <<>>) :
        name \in {None, Some("t1")}, classname \in {None, Some("pkg.C")},
        time \in {None} \cup {Some(t) : t \in TimeTexts}}

SmallCases ==
    {NamedCase("t1", <<>>), NamedCase("t2", <<PlainMarker("failure")>>),
     NamedCase("t3", <<PlainMarker("error")>>),
     NamedCase("t4", <<PlainMarker("skipped")>>)}

Suite(attrib, children) == Element("testsuite", attrib, None, children)

SuiteAttrib(name, tests, failures, errors, skipped, time) ==
    Attr("name", name) @@ Attr("tests", tests) @@ Attr("failures", failures)
    @@ Attr("errors", errors) @@ Attr("skipped", skipped) @@ Attr("time", time)

Opt(S) == {None} \cup {Some(v) : v \in S}

TestsTexts == {<<"0">>, <<"3">>, <<"5">>, <<"1", "0">>, <<"2", "0">>}

SuitesByCounts ==
    {Suite(SuiteAttrib(Some("S"), tests, failures, errors, skipped,
                       Some(<<"1", ".", "5">>)), <<>>) :
        tests \in Opt(TestsTexts),
        failures \in Opt({<<"0">>, <<"1">>, <<"2">>}),
        errors \in Opt({<<"0">>, <<"1">>}),
        skipped \in Opt({<<"1">>, <<"2">>})}

\* Suites whose declared counts include values below zero, which int()
\* accepts.
SuitesBySign ==
    {Suite(SuiteAttrib(Some("S"), Some(tests), Some(failures), None, skipped, None), <<>>) :
        tests \in {<<"-", "5">>, <<"0">>, <<"5">>},
        failures \in {<<"-", "1">>, <<"1">>},
        skipped \in Opt({<<"1">>})}

BadText == <<"x">>

SuitesByBadAttrib ==
    {Suite((k :> BadText)
           @@ SuiteAttrib(Some("S"), Some(<<"2">>), Some(<<"0">>), Some(<<"0">>),
                          Some(<<"0">>), Some(<<"0">>)), <<>>) :
        k \in {"tests", "failures", "errors", "skipped", "time"}}

SuitesByNameTime ==
    {Suite(SuiteAttrib(name, Some(<<"1">>), None, None, None, time), <<>>) :
        name \in {None, Some("S")}, time \in {None} \cup {Some(t) : t \in TimeTexts}}

Properties == Element("properties", EmptyAttrib, None, <<>>)

SuitesByCases ==
    {Suite(SuiteAttrib(Some("S"), tests, None, None, None, None), cs) :
        tests \in {None, Some(<<"1">>)},
        cs \in SeqsUpTo(SmallCases \cup {Properties}, MaxCases)}
    \cup {Suite(SuiteAttrib(Some("S"), tests, None, None, None, None), <<c>>) :
            tests \in {None, Some(<<"1">>)},
            c \in CasesByMarkers \cup CasesByText \cup CasesByAttrib}

SuiteA ==
    Suite(SuiteAttrib(Some("A"), Some(<<"5">>), Some(<<"1">>), None, None,
                      Some(<<"1", ".", "5">>)),
          <<NamedCase("t1", <<>>), NamedCase("t2", <<PlainMarker("failure")>>)>>)

SuiteB ==
    Suite(SuiteAttrib(Some("B"), Some(<<"3">>), None, None, Some(<<"1">>), None),
          <<NamedCase("t4", <<PlainMarker("skipped")>>)>>)

SuiteC == Suite(EmptyAttrib, <<NamedCase("t3", <<PlainMarker("error")>>)>>)

SuiteD == Suite(SuiteAttrib(Some("D"), Some(BadText), None, None, None, None), <<>>)

SmallSuites == {SuiteA, SuiteB, SuiteC, SuiteD}

File(root_elem) == [wellformed |-> TRUE, root |-> root_elem]

Malformed == [wellformed |-> FALSE, root |-> Element("", EmptyAttrib, None, <<>>)]

\* A suite of n cases whose statuses cycle through the four kinds.
LongSuite(n) ==
    Suite(SuiteAttrib(Some("L"), None, None, None, None, None),
          [i \in 1..n |->
              NamedCase(ToString(i),
                        IF i % 4 = 1 THEN <<>>
                        ELSE IF i % 4 = 2 THEN <<PlainMarker("failure")>>
                        ELSE IF i % 4 = 3 THEN <<PlainMarker("error")>>
                        ELSE <<PlainMarker("skipped")>>)])

SingleDocs ==
    {File(s) : s \in SuitesByCounts \cup SuitesBySign \cup SuitesByBadAttrib
                     \cup SuitesByNameTime \cup SuitesByCases
                     \cup {LongSuite(TableThreshold), LongSuite(TableThreshold + 1)}}

MultiDocs ==
    {File(Element("testsuites", a, None, kids)) :
        a \in {EmptyAttrib, SuiteAttrib(Some("All"), Some(<<"8">>), None, None, None, None)},
        kids \in SeqsUpTo(SmallSuites \cup {Properties}, MaxSuites)}
    \cup {File(Element("testsuites", EmptyAttrib, None, <<NamedCase("t1", <<>>), SuiteA>>))}

OtherDocs ==
    {File(Element(tag, a, None, kids)) :
        tag \in {"report", "results"},
        a \in {EmptyAttrib, SuiteAttrib(Some("R"), Some(<<"2">>), None, None, None, None)},
        kids \in {<<>>, <<SuiteA>>, <<NamedCase("t2", <<PlainMarker("failure")>>)>>}}

Docs == SingleDocs \cup MultiDocs \cup OtherDocs \cup {Malformed}

ArgDocs == {File(SuiteA), File(SuiteD), Malformed}

DefaultArgs == [exists |-> TRUE, xml_suffix |-> TRUE, verbose |-> FALSE]

AllArgs == [exists : BOOLEAN, xml_suffix : BOOLEAN, verbose : BOOLEAN]

(***************************************************************************)
(* junit_parser2.py: WordReportGenerator.  A document is the sequence of   *)
(* the paragraphs and tables added to it, in the order they are added.     *)
(***************************************************************************)
Green == <<0, 128, 0>>

Red == <<255, 0, 0>>

Orange == <<255, 165, 0>>

Gray == <<128, 128, 128>>

NoColor == <<>>

Ellipsis == <<".", ".", ".">>

\* f'{value:.<digits>f}' of a float: kept as the number and the precision.
Fixed(digits, value) == [digits |-> digits, value |-> value]

\* A quotient num / den, den > 0.
Rat(num, den) == [num |-> num, den |-> den]

\* rate >= k for a quotient and an integer k
AtLeast(rate, k) == rate.num >= k * rate.den

upper(status) ==
    CASE status = "passed" -> "PASSED" [] status = "failed" -> "FAILED"
      [] status = "error" -> "ERROR" [] status = "skipped" -> "SKIPPED"

Field(s, f) == [i \in 1..Len(s) |-> s[i][f]]

_add_title ==
    <<[kind |-> "title", text |-> "Test Execution Report"],
      [kind |-> "timestamp"], [kind |-> "spacing"]>>

\* Lines 199-203: the aggregate counts.
\* Variant of Totals that does not subtract the skipped count.
Totals_NoSkipped(suites) ==
    LET total_tests    == sum(Field(suites, "tests"))
        total_failures == sum(Field(suites, "failures"))
        total_errors   == sum(Field(suites, "errors"))
        total_skipped  == sum(Field(suites, "skipped"))
    IN  [tests |-> total_tests, failures |-> total_failures,
         errors |-> total_errors, skipped |-> total_skipped,
         passed |-> total_tests - total_failures - total_errors,
         time |-> sum(Field(suites, "time"))]

\* Variant of Totals that never shows a passed count below zero.
Totals_Clamped(suites) ==
    LET total_tests    == sum(Field(suites, "tests"))
        total_failures == sum(Field(suites, "failures"))
        total_errors   == sum(Field(suites, "errors"))
        total_skipped  == sum(Field(suites, "skipped"))
        total_passed   == total_tests - total_failures - total_errors - total_skipped
    IN  [tests |-> total_tests, failures |-> total_failures,
         errors |-> total_errors, skipped |-> total_skipped,
         passed |-> IF total_passed < 0 THEN 0 ELSE total_passed,
         time |-> sum(Field(suites, "time"))]

Totals(suites) ==
    LET total_tests    == sum(Field(suites, "tests"))
        total_failures == sum(Field(suites, "failures"))
        total_errors   == sum(Field(suites, "errors"))
        total_skipped  == sum(Field(suites, "skipped"))
    IN  [tests |-> total_tests, failures |-> total_failures,
         errors |-> total_errors, skipped |-> total_skipped,
         passed |-> total_tests - total_failures - total_errors - total_skipped,
         time |-> sum(Field(suites, "time"))]

\* Line 234: passed / total * 100, or 0 when there are no tests.
\* Variant of SuccessRate without the total_tests > 0 guard.
SuccessRate_Unguarded(total_passed, total_tests) ==
    Rat(total_passed * 100, total_tests)

SuccessRate(total_passed, total_tests) ==
    IF total_tests > 0 THEN Rat(total_passed * 100, total_tests) ELSE Rat(0, 1)

\* Lines 242-247: the colour of the success rate.
\* Variant of RateColor with exclusive tier boundaries.
RateColor_Exclusive(success_rate) ==
    IF success_rate.num > 95 * success_rate.den THEN Green
    ELSE IF success_rate.num > 80 * success_rate.den THEN Orange
    ELSE Red

RateColor(success_rate) ==
    IF AtLeast(success_rate, 95) THEN Green
    ELSE IF AtLeast(success_rate, 80) THEN Orange
    ELSE Red

_add_executive_summary(suites) ==
    LET t            == Totals(suites)
        success_rate == SuccessRate(t.passed, t.tests)
    IN  <<[kind |-> "heading", text |-> "Executive Summary"],
          [kind |-> "summary_table",
           rows |-> <<<<"Total Test Suites", str(Len(suites))>>,
                      <<"Total Tests", str(t.tests)>>,
                      <<"Passed", str(t.passed)>>,
                      <<"Failed", str(t.failures)>>,
                      <<"Errors", str(t.errors)>>,
                      <<"Skipped", str(t.skipped)>>,
                      <<"Total Execution Time", Fixed(2, t.time)>> >>],
          [kind |-> "success_rate", rate |-> Fixed(1, success_rate),
           color |-> RateColor(success_rate)],
          [kind |-> "spacing"]>>

\* Lines 306-308: the details as displayed.
\* Variant of Truncate that also cuts details of exactly TruncLen characters.
Truncate_AtLimit(details) ==
    IF Len(details) >= TruncLen
    THEN SubSeq(details, 1, TruncLen) \o Ellipsis ELSE details

Truncate(details) ==
    IF Len(details) > TruncLen
    THEN SubSeq(details, 1, TruncLen) \o Ellipsis ELSE details

_add_failed_test_details(test_case) ==
    <<[kind |-> "failed_test", classname |-> test_case.classname,
       name |-> test_case.name, color |-> Red]>>
    \o (IF test_case.failure_message # None /\ test_case.failure_message[1] # ""
        THEN <<[kind |-> "message", message |-> test_case.failure_message[1]]>>
        ELSE <<>>)
    \o (IF test_case.failure_details # None /\ test_case.failure_details[1] # <<>>
        THEN <<[kind |-> "details",
                details |-> Truncate(test_case.failure_details[1])]>>
        ELSE <<>>)

RECURSIVE Flatten(_)
Flatten(ss) == IF ss = <<>> THEN <<>> ELSE Head(ss) \o Flatten(Tail(ss))

StatusColor(status) ==
    IF status = "passed" THEN Green
    ELSE IF status \in {"failed", "error"} THEN Red
    ELSE IF status = "skipped" THEN Gray
    ELSE NoColor

_add_test_case_summary_table(test_cases) ==
    <<[kind |-> "listing_header", text |-> "Test Cases Summary:"],
      [kind |-> "table",
       rows |-> [i \in 1..Len(test_cases) |->
                   [name |-> test_cases[i].name,
                    classname |-> test_cases[i].classname,
                    status |-> upper(test_cases[i].status),
                    time |-> Fixed(3, test_cases[i].time),
                    color |-> StatusColor(test_cases[i].status)]]]>>

StatusIcon(status) ==
    IF status = "passed" THEN "check"
    ELSE IF status \in {"failed", "error"} THEN "cross"
    ELSE IF status = "skipped" THEN "dash"
    ELSE ""

_add_detailed_test_cases(test_cases) ==
    IF test_cases = <<>> THEN <<>>
    ELSE <<[kind |-> "listing_header", text |-> "Test Cases:"]>>
         \o [i \in 1..Len(test_cases) |->
               [kind |-> "bullet", icon |-> StatusIcon(test_cases[i].status),
                color |-> StatusColor(test_cases[i].status),
                classname |-> test_cases[i].classname,
                name |-> test_cases[i].name,
                time |-> Fixed(3, test_cases[i].time)]]

Run(label, value, color) == [label |-> label, value |-> value, color |-> color]

\* Lines 255-274: the runs of the suite's summary paragraph.
\* Variant of SummaryRuns that writes the three optional clauses always.
SummaryRuns_Always(suite) ==
    <<Run("Tests", str(suite.tests), NoColor),
      Run("Passed", str(suite.tests - suite.failures
                       - suite.errors - suite.skipped), Green),
      Run("Failed", str(suite.failures), Red),
      Run("Errors", str(suite.errors), Red),
      Run("Skipped", str(suite.skipped), Gray),
      Run("Time", Fixed(2, suite.time), NoColor)>>

SummaryRuns(suite) ==
    <<Run("Tests", str(suite.tests), NoColor),
      Run("Passed", str(suite.tests - suite.failures
                       - suite.errors - suite.skipped), Green)>>
    \o (IF suite.failures > 0
        THEN <<Run("Failed", str(suite.failures), Red)>> ELSE <<>>)
    \o (IF suite.errors > 0
        THEN <<Run("Errors", str(suite.errors), Red)>> ELSE <<>>)
    \o (IF suite.skipped > 0
        THEN <<Run("Skipped", str(suite.skipped), Gray)>> ELSE <<>>)
    \o <<Run("Time", Fixed(2, suite.time), NoColor)>>

\* Line 277: the cases of the failed/error sub-list.
\* Variant of failed_tests that is empty for a suite that declares neither
\* failures nor errors.
failed_tests_ByDeclared(suite) ==
    IF suite.failures + suite.errors > 0
    THEN SelectSeq(suite.test_cases, LAMBDA tc : tc.status \in {"failed", "error"})
    ELSE <<>>

failed_tests(suite) ==
    SelectSeq(suite.test_cases, LAMBDA tc : tc.status \in {"failed", "error"})

\* Lines 283-287: the listing of all the cases of the suite.
\* Variant of CaseListing that switches to the table at the threshold.
CaseListing_AtThreshold(test_cases) ==
    IF Len(test_cases) >= TableThreshold
    THEN _add_test_case_summary_table(test_cases)
    ELSE _add_detailed_test_cases(test_cases)

CaseListing(test_cases) ==
    IF Len(test_cases) > TableThreshold
    THEN _add_test_case_summary_table(test_cases)
    ELSE _add_detailed_test_cases(test_cases)

_add_test_suite_section(suite) ==
    <<[kind |-> "suite_heading", name |-> suite.name],
      [kind |-> "suite_summary", runs |-> SummaryRuns(suite)]>>
    \o (IF failed_tests(suite) # <<>>
        THEN <<[kind |-> "failed_header", text |-> "Failed/Error Tests:"]>>
             \o Flatten([i \in 1..Len(failed_tests(suite)) |->
                           _add_failed_test_details(failed_tests(suite)[i])])
        ELSE <<>>)
    \o CaseListing(suite.test_cases)
    \o <<[kind |-> "spacing"]>>

_add_footer ==
    <<[kind |-> "page_break"], [kind |-> "footer", text |-> "End of Test Report"]>>

(***************************************************************************)
(* junit_parser1.py: create_docx_report                                    *)
(***************************************************************************)
create_docx_report(s) ==
    <<[kind |-> "title", text |-> s.suite_name],
      [kind |-> "heading", text |-> "Summary"],
      [kind |-> "summary_table",
       rows |-> <<<<"Total", str(s.total)>>, <<"Failures", str(s.failures)>>,
                  <<"Errors", str(s.errors)>>, <<"Skipped", str(s.skipped)>>,
                  <<"Time (s)", s.time>> >>],
      [kind |-> "spacing"],
      [kind |-> "heading", text |-> "Test Cases"]>>
    \o [i \in 1..Len(s.results) |->
          LET result == s.results[i]
              status == result.status
          IN  [kind |-> "case", name |-> result.name,
               classname |-> result.classname, status |-> upper(status),
               time |-> result.time,
               runs |-> IF status = "failed"
                        THEN <<Run("Failure", result.message, Red)>>
                             \o (IF result.details # <<>>
                                 THEN <<Run("Details", result.details, NoColor)>>
                                 ELSE <<>>)
                        ELSE IF status = "error"
                        THEN <<Run("Error", result.message, Orange)>>
                             \o (IF result.details # <<>>
                                 THEN <<Run("Details", result.details, NoColor)>>
                                 ELSE <<>>)
                        ELSE IF status = "skipped"
                        THEN <<Run("Skipped", "", Gray)>>
                        ELSE <<>>]]

(***************************************************************************)
(* The state machine: one run of a script on one input file.               *)
(***************************************************************************)
NoRoot == Element("", EmptyAttrib, None, <<>>)

InitCommon ==
    /\ root = NoRoot
    /\ test_suites = <<>>
    /\ idx = 0
    /\ calls = <<>>
    /\ summary = None
    /\ doc = <<>>
    /\ saved = None
    /\ exit_code = None
    /\ stdout = <<>>
    /\ outdir = "untouched"

Init ==
    /\ script \in {"junit_parser1", "junit_parser2"}
    /\ pc = "main"
    /\ \/ xml \in Docs /\ args = DefaultArgs
       \/ xml \in ArgDocs /\ args \in AllArgs
    /\ InitCommon

Exit(code, line) ==
    /\ pc' = "exit"
    /\ exit_code' = Some(code)
    /\ stdout' = stdout \o line

\* junit_parser2.main, lines 396-407: the input must exist; a name without
\* .xml is warned about; the output directory is created (outside the try,
\* so an OSError of mkdir ends the run with a traceback and status 1).
\* Variant of Main_Validate that creates the output directory first.
Main_Validate_MkdirFirst ==
    /\ script = "junit_parser2" /\ pc = "main"
    /\ \E mkdir_ok \in BOOLEAN :
         LET warn == IF args.xml_suffix THEN <<>>
                     ELSE <<"Warning: no .xml extension">>
         IN  IF ~mkdir_ok
             THEN /\ Exit(1, <<"Traceback: OSError">>)
                  /\ UNCHANGED outdir
             ELSE /\ outdir' = "created"
                  /\ IF ~args.exists
                     THEN Exit(1, <<"Error: input file does not exist">>)
                     ELSE /\ pc' = "parse"
                          /\ stdout' = stdout \o warn
                                \o (IF args.verbose THEN <<"Parsing JUnit XML file">> ELSE <<>>)
                          /\ UNCHANGED exit_code
    /\ UNCHANGED <<script, args, xml, root, test_suites, idx, calls, summary, doc, saved>>

\* Variant of Main_Validate for which a name without .xml ends the run.
Main_Validate_WarnFatal ==
    /\ script = "junit_parser2" /\ pc = "main"
    /\ \/ /\ ~args.exists
          /\ Exit(1, <<"Error: input file does not exist">>)
          /\ UNCHANGED outdir
       \/ /\ args.exists /\ ~args.xml_suffix
          /\ Exit(1, <<"Warning: no .xml extension">>)
          /\ UNCHANGED outdir
       \/ /\ args.exists /\ args.xml_suffix
          /\ \E mkdir_ok \in BOOLEAN :
               IF mkdir_ok
               THEN /\ pc' = "parse"
                    /\ outdir' = "created"
                    /\ stdout' = stdout
                          \o (IF args.verbose THEN <<"Parsing JUnit XML file">> ELSE <<>>)
                    /\ UNCHANGED exit_code
               ELSE /\ Exit(1, <<"Traceback: OSError">>)
                    /\ UNCHANGED outdir
    /\ UNCHANGED <<script, args, xml, root, test_suites, idx, calls, summary, doc, saved>>

Main_Validate ==
    /\ script = "junit_parser2" /\ pc = "main"
    /\ \/ /\ ~args.exists
          /\ Exit(1, <<"Error: input file does not exist">>)
          /\ UNCHANGED outdir
       \/ /\ args.exists
          /\ \E mkdir_ok \in BOOLEAN :
               LET warn == IF args.xml_suffix THEN <<>>
                           ELSE <<"Warning: no .xml extension">>
               IN  IF mkdir_ok
                   THEN /\ pc' = "parse"
                        /\ outdir' = "created"
                        /\ stdout' = stdout \o warn
                              \o (IF args.verbose THEN <<"Parsing JUnit XML file">> ELSE <<>>)
                        /\ UNCHANGED exit_code
                   ELSE /\ Exit(1, warn \o <<"Traceback: OSError">>)
                        /\ UNCHANGED outdir
    /\ UNCHANGED <<script, args, xml, root, test_suites, idx, calls, summary, doc, saved>>

\* The call ends by raising e.
Raised(e) ==
    /\ pc' = "raised"
    /\ calls' = Append(calls, Raise(e))

\* JUnitXMLParser.parse, lines 64-70: the tree is read and the list of
\* suites of this call starts empty.
\* Variant of Parse_Open that keeps the list of the previous call.
Parse_Open_KeepList ==
    /\ pc = "parse"
    /\ LET r == ET_parse(xml)
       IN  IF r.raised
           THEN Raised("ValueError") /\ UNCHANGED <<root, test_suites>>
           ELSE /\ root' = r.value
                /\ pc' = "dispatch"
                /\ UNCHANGED <<calls, test_suites>>
    /\ UNCHANGED <<outdir, script, args, xml, idx, summary, doc, saved, exit_code, stdout>>

Parse_Open ==
    /\ pc = "parse"
    /\ LET r == ET_parse(xml)
       IN  IF r.raised
           THEN Raised("ValueError") /\ UNCHANGED <<root, test_suites>>
           ELSE /\ root' = r.value
                /\ test_suites' = <<>>
                /\ pc' = "dispatch"
                /\ UNCHANGED calls
    /\ UNCHANGED <<outdir, script, args, xml, idx, summary, doc, saved, exit_code, stdout>>

\* Lines 73-79: a testsuite root is parsed itself, a testsuites root starts
\* the loop over its testsuite children, any other root raises.
\* Variant of Parse_Dispatch that treats any other root as a container.
Parse_Dispatch_AnyRoot ==
    /\ pc = "dispatch"
    /\ IF root.tag = "testsuite"
       THEN LET r == _parse_testsuite(root)
            IN  IF r.raised
                THEN Raised(r.value) /\ UNCHANGED <<test_suites, idx>>
                ELSE /\ test_suites' = Append(test_suites, r.value)
                     /\ pc' = "return"
                     /\ UNCHANGED <<calls, idx>>
       ELSE /\ idx' = 1
            /\ pc' = "loop"
            /\ UNCHANGED <<calls, test_suites>>
    /\ UNCHANGED <<outdir, script, args, xml, root, summary, doc, saved, exit_code, stdout>>

Parse_Dispatch ==
    /\ pc = "dispatch"
    /\ IF root.tag = "testsuite"
       THEN LET r == _parse_testsuite(root)
            IN  IF r.raised
                THEN Raised(r.value) /\ UNCHANGED <<test_suites, idx>>
                ELSE /\ test_suites' = Append(test_suites, r.value)
                     /\ pc' = "return"
                     /\ UNCHANGED <<calls, idx>>
       ELSE IF root.tag = "testsuites"
       THEN /\ idx' = 1
            /\ pc' = "loop"
            /\ UNCHANGED <<calls, test_suites>>
       ELSE Raised("ValueError") /\ UNCHANGED <<test_suites, idx>>
    /\ UNCHANGED <<outdir, script, args, xml, root, summary, doc, saved, exit_code, stdout>>

\* Lines 76-77: one iteration of the loop over root.findall('testsuite').
\* Variant of Parse_Loop that puts each suite in front of the list.
Parse_Loop_Prepend ==
    /\ pc = "loop"
    /\ LET elems == findall(root, "testsuite")
       IN  IF idx <= Len(elems)
           THEN LET r == _parse_testsuite(elems[idx])
                IN  IF r.raised
                    THEN Raised(r.value) /\ UNCHANGED <<test_suites, idx>>
                    ELSE /\ test_suites' = <<r.value>> \o test_suites
                         /\ idx' = idx + 1
                         /\ UNCHANGED <<pc, calls>>
           ELSE /\ pc' = "return"
                /\ UNCHANGED <<test_suites, idx, calls>>
    /\ UNCHANGED <<outdir, script, args, xml, root, summary, doc, saved, exit_code, stdout>>

\* Variant of Parse_Loop that leaves out a suite that does not convert.
Parse_Loop_SkipBad ==
    /\ pc = "loop"
    /\ LET elems == findall(root, "testsuite")
       IN  IF idx <= Len(elems)
           THEN LET r == _parse_testsuite(elems[idx])
                IN  /\ test_suites' = IF r.raised THEN test_suites
                                      ELSE Append(test_suites, r.value)
                    /\ idx' = idx + 1
                    /\ UNCHANGED <<pc, calls>>
           ELSE /\ pc' = "return"
                /\ UNCHANGED <<test_suites, idx, calls>>
    /\ UNCHANGED <<outdir, script, args, xml, root, summary, doc, saved, exit_code, stdout>>

Parse_Loop ==
    /\ pc = "loop"
    /\ LET elems == findall(root, "testsuite")
       IN  IF idx <= Len(elems)
           THEN LET r == _parse_testsuite(elems[idx])
                IN  IF r.raised
                    THEN Raised(r.value) /\ UNCHANGED <<test_suites, idx>>
                    ELSE /\ test_suites' = Append(test_suites, r.value)
                         /\ idx' = idx + 1
                         /\ UNCHANGED <<pc, calls>>
           ELSE /\ pc' = "return"
                /\ UNCHANGED <<test_suites, idx, calls>>
    /\ UNCHANGED <<outdir, script, args, xml, root, summary, doc, saved, exit_code, stdout>>

\* Line 81.
Parse_Return ==
    /\ pc = "return"
    /\ pc' = "returned"
    /\ calls' = Append(calls, Return(test_suites))
    /\ UNCHANGED <<outdir, script, args, xml, root, test_suites, idx, summary, doc, saved,
                   exit_code, stdout>>

\* main, lines 417-425: the verbose messages and a new WordReportGenerator.
Main_Generator ==
    /\ script = "junit_parser2" /\ pc = "returned"
    /\ pc' = "title"
    /\ doc' = <<>>
    /\ stdout' = stdout \o (IF args.verbose
                            THEN <<"Found suites", "Generating Word report">>
                            ELSE <<>>)
    /\ UNCHANGED <<outdir, script, args, xml, root, test_suites, idx, calls, summary, saved,
                   exit_code>>

\* generate_report, line 172
Gen_Title ==
    /\ pc = "title"
    /\ doc' = doc \o _add_title
    /\ pc' = "summary"
    /\ UNCHANGED <<outdir, script, args, xml, root, test_suites, idx, calls, summary, saved,
                   exit_code, stdout>>

\* generate_report, line 173
Gen_Summary ==
    /\ pc = "summary"
    /\ doc' = doc \o _add_executive_summary(test_suites)
    /\ pc' = "sections"
    /\ idx' = 1
    /\ UNCHANGED <<outdir, script, args, xml, root, test_suites, calls, summary, saved,
                   exit_code, stdout>>

\* generate_report, lines 175-176: one iteration of the loop over the suites.
\* Variant of Gen_Section that stores the shown details in the cases.
Gen_Section_StoresShown ==
    /\ pc = "sections"
    /\ IF idx <= Len(test_suites)
       THEN /\ doc' = doc \o _add_test_suite_section(test_suites[idx])
            /\ test_suites' =
                 [test_suites EXCEPT ![idx].test_cases =
                    [j \in 1..Len(@) |->
                       IF @[j].failure_details # None
                       THEN [@[j] EXCEPT !.failure_details = Some(Truncate(@[1]))]
                       ELSE @[j]]]
            /\ idx' = idx + 1
            /\ UNCHANGED pc
       ELSE /\ pc' = "footer"
            /\ UNCHANGED <<doc, idx, test_suites>>
    /\ UNCHANGED <<outdir, script, args, xml, root, calls, summary, saved,
                   exit_code, stdout>>

Gen_Section ==
    /\ pc = "sections"
    /\ IF idx <= Len(test_suites)
       THEN /\ doc' = doc \o _add_test_suite_section(test_suites[idx])
            /\ idx' = idx + 1
            /\ UNCHANGED pc
       ELSE /\ pc' = "footer"
            /\ UNCHANGED <<doc, idx>>
    /\ UNCHANGED <<outdir, script, args, xml, root, test_suites, calls, summary, saved,
                   exit_code, stdout>>

\* generate_report, lines 178-179: the footer, then the document is saved;
\* the save may fail with an OSError.
\* Variant of Gen_FooterSave that saves before the footer is added.
Gen_FooterSave_SaveFirst ==
    /\ pc = "footer"
    /\ doc' = doc \o _add_footer
    /\ \E save_ok \in BOOLEAN :
         IF save_ok
         THEN /\ saved' = Some(doc)
              /\ pc' = "generated"
         ELSE /\ pc' = "raised"
              /\ UNCHANGED saved
    /\ UNCHANGED <<outdir, script, args, xml, root, test_suites, idx, calls, summary,
                   exit_code, stdout>>

Gen_FooterSave ==
    /\ pc = "footer"
    /\ doc' = doc \o _add_footer
    /\ \E save_ok \in BOOLEAN :
         IF save_ok
         THEN /\ saved' = Some(doc')
              /\ pc' = "generated"
         ELSE /\ pc' = "raised"
              /\ UNCHANGED saved
    /\ UNCHANGED <<outdir, script, args, xml, root, test_suites, idx, calls, summary,
                   exit_code, stdout>>

\* generate_report, lines 172-178: a call into the document backend raises
\* while the document is being built; the exception leaves generate_report
\* before line 179, so nothing is saved.
Gen_Raise ==
    /\ pc \in {"title", "summary", "sections", "footer"}
    /\ pc' = "raised"
    /\ UNCHANGED <<outdir, script, args, xml, root, test_suites, idx, calls, summary, doc,
                   saved, exit_code, stdout>>

\* main, line 428
Main_Success ==
    /\ script = "junit_parser2" /\ pc = "generated"
    /\ Exit(0, <<"Report successfully generated">>)
    /\ UNCHANGED <<outdir, script, args, xml, root, test_suites, idx, calls, summary, doc, saved>>

\* main, lines 430-435
\* Variant of Main_Except that prints nothing.
Main_Except_Silent ==
    /\ script = "junit_parser2" /\ pc = "raised"
    /\ Exit(1, <<>>)
    /\ UNCHANGED <<outdir, script, args, xml, root, test_suites, idx, calls, summary, doc, saved>>

Main_Except ==
    /\ script = "junit_parser2" /\ pc = "raised"
    /\ Exit(1, <<"Error: exception">>
               \o (IF args.verbose THEN <<"Traceback">> ELSE <<>>))
    /\ UNCHANGED <<outdir, script, args, xml, root, test_suites, idx, calls, summary, doc, saved>>

\* junit_parser1, line 100: parse_junit_xml(args.xml_file); any exception is
\* uncaught and ends the run with a traceback and status 1.
Main1_Parse ==
    /\ script = "junit_parser1" /\ pc = "main"
    /\ LET tree == IF args.exists THEN ET_parse(xml) ELSE Raise("FileNotFoundError")
           r    == IF tree.raised THEN tree ELSE parse_junit_xml(tree.value)
       IN  IF r.raised
           THEN /\ Exit(1, <<"Traceback">>)
                /\ calls' = Append(calls, r)
                /\ UNCHANGED <<root, summary>>
           ELSE /\ root' = tree.value
                /\ summary' = Some(r.value)
                /\ calls' = Append(calls, r)
                /\ pc' = "report1"
                /\ UNCHANGED <<exit_code, stdout>>
    /\ UNCHANGED <<outdir, script, args, xml, test_suites, idx, doc, saved>>

\* junit_parser1, lines 101-102: create_docx_report and the final message.
Main1_Report ==
    /\ script = "junit_parser1" /\ pc = "report1"
    /\ doc' = create_docx_report(summary[1])
    /\ \E save_ok \in BOOLEAN :
         IF save_ok
         THEN /\ saved' = Some(doc')
              /\ Exit(0, <<"Report saved">>)
         ELSE /\ Exit(1, <<"Traceback">>)
              /\ UNCHANGED saved
    /\ UNCHANGED <<outdir, script, args, xml, root, test_suites, idx, calls, summary>>

Next ==
    \/ Main_Validate
    \/ Parse_Open
    \/ Parse_Dispatch
    \/ Parse_Loop
    \/ Parse_Return
    \/ Main_Generator
    \/ Gen_Title
    \/ Gen_Summary
    \/ Gen_Section
    \/ Gen_FooterSave
    \/ Gen_Raise
    \/ Main_Success
    \/ Main_Except
    \/ Main1_Parse
    \/ Main1_Report

Spec == Init /\ [][Next]_vars

(***************************************************************************)
(* Runs of the scripts to their end.  A run is one thread of control:      *)
(* while a statement remains to be executed, the interpreter executes it.  *)
(* The runs take every combination of the command's arguments on a file of *)
(* each kind: one suite, a suite with an attribute that does not convert,  *)
(* a malformed file, a container of two suites and an unknown root.        *)
(***************************************************************************)
LiveDocs ==
    ArgDocs \cup {File(Element("testsuites", EmptyAttrib, None, <<SuiteA, SuiteC>>)),
                  File(Element("report", EmptyAttrib, None, <<SuiteA>>))}

InitLive ==
    /\ script \in {"junit_parser1", "junit_parser2"}
    /\ pc = "main"
    /\ xml \in LiveDocs
    /\ args \in AllArgs
    /\ InitCommon

SpecLive == InitLive /\ [][Next]_vars /\ WF_vars(Next)

(***************************************************************************)
(* Calls of JUnitXMLParser.parse by a caller that parses the same file     *)
(* several times.                                                          *)
(***************************************************************************)
InitParse ==
    /\ script = "junit_parser2"
    /\ pc = "parse"
    /\ xml \in Docs
    /\ args = DefaultArgs
    /\ InitCommon

ParseAgain ==
    /\ pc \in {"returned", "raised"}
    /\ Len(calls) < MaxCalls
    /\ pc' = "parse"
    /\ UNCHANGED <<outdir, script, args, xml, root, test_suites, idx, calls, summary, doc,
                   saved, exit_code, stdout>>

NextParse ==
    \/ Parse_Open
    \/ Parse_Dispatch
    \/ Parse_Loop
    \/ Parse_Return
    \/ ParseAgain

SpecParse == InitParse /\ [][NextParse]_vars

(***************************************************************************)
(* Vocabulary of the properties: the input as the schema describes it,     *)
(* stated without the parser's operators.                                  *)
(***************************************************************************)
RECURSIVE Tagged(_, _)
Tagged(children, tag) ==
    IF children = <<>> THEN <<>>
    ELSE (IF Head(children).tag = tag THEN <<Head(children)>> ELSE <<>>)
         \o Tagged(Tail(children), tag)

HasChild(elem, tag) == \E i \in DOMAIN elem.children : elem.children[i].tag = tag

Absent(elem, key) == key \notin DOMAIN elem.attrib

\* The suite elements of a recognised root, in document order.
SuiteElemsOf(r) == IF r.tag = "testsuite" THEN <<r>> ELSE Tagged(r.children, "testsuite")

CaseElemsOf(suite_elem) == Tagged(suite_elem.children, "testcase")

ExpectedStatus(case_elem) ==
    IF HasChild(case_elem, "failure") THEN "failed"
    ELSE IF HasChild(case_elem, "error") THEN "error"
    ELSE IF HasChild(case_elem, "skipped") THEN "skipped"
    ELSE "passed"

Paragraphs(kind) == SelectSeq(doc, LAMBDA p : p.kind = kind)

IsParser2 == script = "junit_parser2"

IsParser1 == script = "junit_parser1"

CountKeys == {"tests", "failures", "errors", "skipped"}

\* The integer a decimal text, of an attribute or of a rendered count,
\* reads as.
IntOf(text) == IF text[1] = "-" THEN 0 - Dec(Tail(text)) ELSE Dec(text)

\* C1: every parsed testcase has the status given by the fixed priority
\* failure > error > skipped > passed over its direct children, whatever
\* their order; the cases of a suite are the testcase children of its
\* element.  The same priority holds for the results of junit_parser1.
C1_StatusPriority ==
    /\ IsParser2 =>
         \A i \in 1..Len(test_suites) :
            LET elems == CaseElemsOf(SuiteElemsOf(root)[i])
                cases == test_suites[i].test_cases
            IN  /\ Len(cases) = Len(elems)
                /\ \A j \in 1..Len(cases) :
                     /\ cases[j].status = ExpectedStatus(elems[j])
                     /\ cases[j].status \in {"passed", "failed", "error", "skipped"}
    /\ (IsParser1 /\ summary # None) =>
         LET elems == Tagged(root.children, "testcase")
             results == summary[1].results
         IN  /\ Len(results) = Len(elems)
             /\ \A j \in 1..Len(results) :
                  results[j].status = ExpectedStatus(elems[j])

\* C1 witness: a case whose first child is an error marker and whose second
\* child is a failure marker has been parsed as failed.
C1_Witness ==
    /\ IsParser2
    /\ \E i \in 1..Len(test_suites) :
         \E j \in 1..Len(test_suites[i].test_cases) :
            LET e == CaseElemsOf(SuiteElemsOf(root)[i])[j]
            IN  /\ Len(e.children) = 2
                /\ e.children[1].tag = "error"
                /\ e.children[2].tag = "failure"
                /\ test_suites[i].test_cases[j].status = "failed"

UnknownRoot == xml.wellformed /\ xml.root.tag \notin {"testsuite", "testsuites"}

\* C2: on a well-formed document whose root tag is neither testsuite nor
\* testsuites, every call of JUnitXMLParser.parse ends by raising ValueError:
\* it never returns, so no summary (in particular no empty one) exists and
\* nothing is rendered from one.
C2_UnknownRootRaises ==
    (IsParser2 /\ UnknownRoot) =>
        /\ \A k \in DOMAIN calls : calls[k].raised /\ calls[k].value = "ValueError"
        /\ pc \in {"main", "parse", "dispatch", "raised", "exit"}
        /\ pc \in {"raised"} => Len(calls) = 1
        /\ doc = <<>> /\ saved = None

\* C2 witness: parse has raised on a document whose root is <report>.
C2_Witness ==
    /\ IsParser2 /\ UnknownRoot /\ xml.root.tag = "report"
    /\ pc = "raised"
    /\ calls = <<Raise("ValueError")>>

\* C3: parse_junit_xml of junit_parser1 fails on a root that is neither a
\* single suite nor a container of suites, and for a testsuites root it
\* returns the testcases of the suites the root holds.
C3_Parser1RootShapes ==
    (IsParser1 /\ summary # None) =>
        /\ root.tag \in {"testsuite", "testsuites"}
        /\ root.tag = "testsuites" =>
             Len(summary[1].results)
               >= sum([i \in 1..Len(SuiteElemsOf(root)) |->
                         Len(CaseElemsOf(SuiteElemsOf(root)[i]))])

RECURSIVE SumField(_, _)
SumField(suites, f) ==
    IF suites = <<>> THEN 0 ELSE Head(suites)[f] + SumField(Tail(suites), f)

DeclaredPassed ==
    SumField(test_suites, "tests") - SumField(test_suites, "failures")
    - SumField(test_suites, "errors") - SumField(test_suites, "skipped")

SummaryRendered == IsParser2 /\ Paragraphs("success_rate") # <<>>

SummaryTable == Paragraphs("summary_table")[1].rows

RenderedRate == Paragraphs("success_rate")[1].rate.value

\* C4: the executive summary shows the sums of the suites' counts, passed =
\* total - failed - errors - skipped, and the success rate passed / total *
\* 100 when total > 0 and exactly 0 when total = 0, the empty list of suites
\* included.
C4_AggregateAndRate ==
    SummaryRendered =>
        LET total == SumField(test_suites, "tests")
        IN  /\ SummaryTable[1] = <<"Total Test Suites", str(Len(test_suites))>>
            /\ SummaryTable[2] = <<"Total Tests", str(total)>>
            /\ SummaryTable[3] = <<"Passed", str(DeclaredPassed)>>
            /\ SummaryTable[4] = <<"Failed", str(SumField(test_suites, "failures"))>>
            /\ SummaryTable[5] = <<"Errors", str(SumField(test_suites, "errors"))>>
            /\ SummaryTable[6] = <<"Skipped", str(SumField(test_suites, "skipped"))>>
            /\ RenderedRate.den > 0
            /\ total > 0 =>
                 RenderedRate.num * total = 100 * DeclaredPassed * RenderedRate.den
            /\ total <= 0 => RenderedRate.num = 0

\* C4 witness: the summary has been rendered for an empty list of suites.
C4_Witness ==
    /\ SummaryRendered
    /\ test_suites = <<>>
    /\ SummaryTable[2] = <<"Total Tests", <<"0">> >>
    /\ RenderedRate.num = 0

RenderedRateColor == Paragraphs("success_rate")[1].color

\* C5: the colour of the success rate is green iff 100 * passed >= 95 *
\* total with total > 0, orange iff 80 * total <= 100 * passed < 95 * total,
\* and red otherwise; declared tests=10, failures=2, errors=1, skipped=1
\* gives passed 6, rate 60 and red.
C5_RateTier ==
    SummaryRendered =>
        LET total  == SumField(test_suites, "tests")
            passed == DeclaredPassed
            top    == total > 0 /\ 100 * passed >= 95 * total
            middle == 80 * total <= 100 * passed /\ 100 * passed < 95 * total
        IN  /\ (RenderedRateColor = Green) <=> top
            /\ (RenderedRateColor = Orange) <=> middle
            /\ (RenderedRateColor = Red) <=> (~top /\ ~middle)
            /\ (/\ Len(test_suites) = 1
                /\ test_suites[1].tests = 10 /\ test_suites[1].failures = 2
                /\ test_suites[1].errors = 1 /\ test_suites[1].skipped = 1)
               => /\ SummaryTable[3] = <<"Passed", <<"6">> >>
                  /\ RenderedRate.num = 60 * RenderedRate.den
                  /\ RenderedRateColor = Red

\* C5 witness: a rate of exactly 95 (19 of 20) has been rendered green.
C5_Witness ==
    /\ SummaryRendered
    /\ SumField(test_suites, "tests") = 20
    /\ DeclaredPassed = 19
    /\ RenderedRateColor = Green

RenderedSuites == SubSeq(test_suites, 1, Len(Paragraphs("suite_heading")))

FailedOrError(cases) == SelectSeq(cases, LAMBDA tc : tc.status \in {"failed", "error"})

RenderedFailedCases ==
    Flatten([i \in 1..Len(RenderedSuites) |-> FailedOrError(RenderedSuites[i].test_cases)])

Rendering == pc \in {"title", "summary", "sections", "footer", "generated"}

\* C6: details longer than 500 characters are shown as their first 500
\* characters followed by '...' (503 characters), details of 500 characters
\* or fewer are shown as they are, and the stored failure_details stay as
\* the parser returned them.
C6_DetailsTruncation ==
    IsParser2 =>
        LET shown == Paragraphs("details")
            cases == RenderedFailedCases
        IN  /\ Len(shown) = Len(cases)
            /\ \A i \in 1..Len(shown) :
                 LET stored == cases[i].failure_details[1]
                     text   == shown[i].details
                 IN  /\ Len(stored) > 500 =>
                          /\ Len(text) = 503
                          /\ SubSeq(text, 1, 500) = SubSeq(stored, 1, 500)
                          /\ SubSeq(text, 501, 503) = <<".", ".", ".">>
                     /\ Len(stored) <= 500 => text = stored
            /\ (Rendering \/ saved # None) => test_suites = calls[1].value

\* C6 witness: details of 501 characters have been shown as 503 characters
\* in a saved report.
C6_Witness ==
    /\ IsParser2 /\ saved # None
    /\ \E i \in 1..Len(Paragraphs("details")) :
         /\ Len(Paragraphs("details")[i].details) = 503
         /\ Len(RenderedFailedCases[i].failure_details[1]) = 501

NameOf(elem, default) == IF "name" \in DOMAIN elem.attrib THEN elem.attrib["name"] ELSE default

ParseReturned == calls # <<>> /\ ~calls[1].raised

\* C7: for a testsuites root, parse returns one TestSuite per testsuite
\* child in document order, each with its testcases in document order;
\* the report has one suite section per suite in the same order, and the
\* aggregate total is the sum of the suites' test counts.
C7_SuiteOrder ==
    (IsParser2 /\ root.tag = "testsuites") =>
        LET elems    == Tagged(root.children, "testsuite")
            headings == Paragraphs("suite_heading")
        IN  /\ Len(test_suites) <= Len(elems)
            /\ ParseReturned => Len(test_suites) = Len(elems)
            /\ \A i \in 1..Len(test_suites) :
                 /\ test_suites[i].name = NameOf(elems[i], "Unknown")
                 /\ Field(test_suites[i].test_cases, "name")
                      = [j \in 1..Len(CaseElemsOf(elems[i])) |->
                           NameOf(CaseElemsOf(elems[i])[j], "Unknown")]
            /\ Len(headings) <= Len(test_suites)
            /\ \A i \in 1..Len(headings) : headings[i].name = test_suites[i].name
            /\ (pc \in {"footer", "generated"} \/ saved # None) =>
                 Len(headings) = Len(elems)
            /\ SummaryRendered =>
                 SummaryTable[2] = <<"Total Tests", str(SumField(test_suites, "tests"))>>

\* C7 witness: suites A (5 tests) and B (3 tests), in this order, have been
\* reported in a saved report with sections A, B and a total of 8.
C7_Witness ==
    /\ IsParser2 /\ root.tag = "testsuites" /\ saved # None
    /\ Field(test_suites, "tests") = <<5, 3>>
    /\ Field(Paragraphs("suite_heading"), "name") = <<"A", "B">>
    /\ SummaryTable[2] = <<"Total Tests", <<"8">> >>

Unconvertible(elem) ==
    \/ \E k \in CountKeys \cap DOMAIN elem.attrib : int(elem.attrib[k]).raised
    \/ "time" \in DOMAIN elem.attrib /\ float(elem.attrib["time"]).raised

SuiteUnconvertible(suite_elem) ==
    \/ Unconvertible(suite_elem)
    \/ \E j \in 1..Len(CaseElemsOf(suite_elem)) :
         LET c == CaseElemsOf(suite_elem)[j]
         IN  "time" \in DOMAIN c.attrib /\ float(c.attrib["time"]).raised

RunsLabelled(runs, label) == SelectSeq(runs, LAMBDA r : r.label = label)

\* C9: the declared counts of a suite are used as given: the parsed counts
\* and the rendered counts (aggregate and suite line) are the declared
\* values, whatever the suite's testcase children are, and parse raises
\* only for a malformed file, an unknown root or a value that does not
\* convert, never for a mismatch.
C9_DeclaredCountsTrusted ==
    IsParser2 =>
        /\ \A i \in 1..Len(test_suites) :
             \A k \in CountKeys \cap DOMAIN SuiteElemsOf(root)[i].attrib :
                Return(test_suites[i][k]) = int(SuiteElemsOf(root)[i].attrib[k])
        /\ (calls # <<>> /\ calls[1].raised) =>
              \/ ~xml.wellformed
              \/ UnknownRoot
              \/ \E i \in 1..Len(SuiteElemsOf(root)) :
                    SuiteUnconvertible(SuiteElemsOf(root)[i])
        /\ \A i \in 1..Len(Paragraphs("suite_summary")) :
             LET runs == Paragraphs("suite_summary")[i].runs
                 s    == test_suites[i]
             IN  /\ runs[1] = Run("Tests", str(s.tests), NoColor)
                 /\ runs[2] = Run("Passed", str(s.tests - s.failures - s.errors
                                                - s.skipped), Green)
                 /\ \A r \in 1..Len(RunsLabelled(runs, "Failed")) :
                      RunsLabelled(runs, "Failed")[r].value = str(s.failures)
                 /\ \A r \in 1..Len(RunsLabelled(runs, "Errors")) :
                      RunsLabelled(runs, "Errors")[r].value = str(s.errors)
                 /\ \A r \in 1..Len(RunsLabelled(runs, "Skipped")) :
                      RunsLabelled(runs, "Skipped")[r].value = str(s.skipped)
        /\ SummaryRendered =>
             /\ SummaryTable[2] = <<"Total Tests", str(SumField(test_suites, "tests"))>>
             /\ SummaryTable[4] = <<"Failed", str(SumField(test_suites, "failures"))>>
             /\ SummaryTable[5] = <<"Errors", str(SumField(test_suites, "errors"))>>
             /\ SummaryTable[6] = <<"Skipped", str(SumField(test_suites, "skipped"))>>

\* C9 witness: a suite declaring tests="5" and failures="1" with two
\* testcase children has been reported with 5 tests in a saved report.
C9_Witness ==
    /\ IsParser2 /\ saved # None /\ exit_code = Some(0)
    /\ Len(test_suites) = 1
    /\ Len(test_suites[1].test_cases) = 2
    /\ ~Absent(SuiteElemsOf(root)[1], "tests")
    /\ SuiteElemsOf(root)[1].attrib["tests"] = <<"5">>
    /\ Paragraphs("suite_summary")[1].runs[1].value = <<"5">>
    /\ SummaryTable[2] = <<"Total Tests", <<"5">> >>

\* The defaults of junit_parser2 (lines 85-90 and 102).
Parser2Defaults ==
    IsParser2 =>
        /\ \A i \in 1..Len(test_suites) :
             LET e == SuiteElemsOf(root)[i]
                 s == test_suites[i]
             IN  /\ \A k \in CountKeys : Absent(e, k) => s[k] = 0
                 /\ Absent(e, "time") => s.time = 0
                 /\ Absent(e, "name") => s.name = "Unknown"
                 /\ \A j \in 1..Len(s.test_cases) :
                      Absent(CaseElemsOf(e)[j], "time") => s.test_cases[j].time = 0
        /\ (calls # <<>> /\ calls[1].raised /\ xml.wellformed /\ ~UnknownRoot) =>
              \E i \in 1..Len(SuiteElemsOf(root)) :
                 SuiteUnconvertible(SuiteElemsOf(root)[i])

\* The defaults of junit_parser1 other than that of tests (lines 11-14, 46).
Parser1Defaults ==
    /\ (IsParser1 /\ summary # None) =>
         LET s == summary[1]
         IN  /\ \A k \in {"failures", "errors", "skipped"} : Absent(root, k) => s[k] = 0
             /\ Absent(root, "time") => s.time = <<"0">>
             /\ Absent(root, "name") => s.suite_name = "TestSuite"
             /\ \A j \in 1..Len(s.results) :
                  Absent(Tagged(root.children, "testcase")[j], "time")
                     => s.results[j].time = <<"0">>
    /\ (IsParser1 /\ calls # <<>> /\ calls[1].raised /\ args.exists /\ xml.wellformed) =>
         \E k \in CountKeys \cap DOMAIN xml.root.attrib : int(xml.root.attrib[k]).raised

\* C10 as amended: absent attributes never raise; junit_parser2 fills an
\* absent tests, failures, errors, skipped or time of a suite and an absent
\* time of a case with zero and an absent suite name with 'Unknown';
\* junit_parser1 fills an absent failures, errors or skipped with 0, an
\* absent time with '0' and an absent name with 'TestSuite', and fills an
\* absent tests with the number of parsed testcases.
C10_DefaultsFilled ==
    /\ Parser2Defaults
    /\ Parser1Defaults
    /\ (IsParser1 /\ summary # None /\ Absent(root, "tests")) =>
         summary[1].total = Len(Tagged(root.children, "testcase"))

\* C10 as stated: in both parsers every absent numeric attribute of a suite,
\* tests included, becomes zero.
C10_AbsentBecomesZero ==
    /\ Parser2Defaults
    /\ Parser1Defaults
    /\ (IsParser1 /\ summary # None /\ root.tag = "testsuite" /\ Absent(root, "tests"))
         => summary[1].total = 0

\* C10 witness: a testsuite element without attributes, holding a case, has
\* been parsed by junit_parser2 into a suite named 'Unknown' with all counts
\* and the time zero.
C10_Witness ==
    /\ IsParser2 /\ ParseReturned
    /\ Len(test_suites) = 1
    /\ DOMAIN SuiteElemsOf(root)[1].attrib = {}
    /\ test_suites[1].name = "Unknown"
    /\ test_suites[1].tests = 0 /\ test_suites[1].failures = 0
    /\ test_suites[1].errors = 0 /\ test_suites[1].skipped = 0
    /\ test_suites[1].time = 0
    /\ test_suites[1].test_cases # <<>>

(***************************************************************************)
(* C11: the declared totals of a suite when an attribute is absent         *)
(***************************************************************************)
\* The attribute that declares the number of cases of a status.
StatusOfKey(k) ==
    IF k = "failures" THEN "failed" ELSE IF k = "errors" THEN "error" ELSE "skipped"

WithStatus(cases, status) == SelectSeq(cases, LAMBDA tc : tc.status = status)

\* The counts of a parsed suite are the attributes that are present.
PresentCountsTaken ==
    /\ IsParser2 =>
         \A i \in 1..Len(test_suites) :
            \A k \in CountKeys \ {e \in CountKeys : Absent(SuiteElemsOf(root)[i], e)} :
               test_suites[i][k] = IntOf(SuiteElemsOf(root)[i].attrib[k])
    /\ (IsParser1 /\ summary # None) =>
         /\ ~Absent(root, "tests") => summary[1].total = IntOf(root.attrib["tests"])
         /\ \A k \in {"failures", "errors", "skipped"} \cap DOMAIN root.attrib :
               summary[1][k] = IntOf(root.attrib[k])

\* C11 as amended: a count whose attribute is present is the attribute's
\* value; of the absent ones only the test count of junit_parser1 is derived
\* by counting, as the number of parsed testcases; the test count of
\* junit_parser2 and, in both parsers, the failures, errors and skipped
\* counts of an absent attribute are 0, whatever the statuses of the cases.
C11_AbsentCounts ==
    /\ PresentCountsTaken
    /\ IsParser2 =>
         \A i \in 1..Len(test_suites) :
            \A k \in CountKeys :
               Absent(SuiteElemsOf(root)[i], k) => test_suites[i][k] = 0
    /\ (IsParser1 /\ summary # None) =>
         /\ Absent(root, "tests") => summary[1].total = Len(summary[1].results)
         /\ Len(summary[1].results) = Len(Tagged(root.children, "testcase"))
         /\ \A k \in {"failures", "errors", "skipped"} :
               Absent(root, k) => summary[1][k] = 0

\* C11 as stated: an absent tests becomes the number of parsed testcases and
\* an absent failures, errors or skipped becomes the number of cases with
\* that status, in both parsers.
C11_AbsentCountsDerived ==
    /\ PresentCountsTaken
    /\ IsParser2 =>
         \A i \in 1..Len(test_suites) :
            LET e == SuiteElemsOf(root)[i]
                s == test_suites[i]
            IN  /\ Absent(e, "tests") => s.tests = Len(s.test_cases)
                /\ \A k \in {"failures", "errors", "skipped"} :
                      Absent(e, k) => s[k] = Len(WithStatus(s.test_cases, StatusOfKey(k)))
    /\ (IsParser1 /\ summary # None /\ root.tag = "testsuite") =>
         /\ Absent(root, "tests") => summary[1].total = Len(summary[1].results)
         /\ \A k \in {"failures", "errors", "skipped"} :
               Absent(root, k) =>
                  summary[1][k] = Len(WithStatus(summary[1].results, StatusOfKey(k)))

\* C11 witness: junit_parser1 has parsed a testsuite root without tests and
\* failures attributes that holds two testcases, one of them failed: the
\* total is 2 and the failures count is 0.
C11_Witness ==
    /\ IsParser1 /\ summary # None /\ root.tag = "testsuite"
    /\ Absent(root, "tests") /\ Absent(root, "failures")
    /\ Len(summary[1].results) = 2
    /\ WithStatus(summary[1].results, "failed") # <<>>
    /\ summary[1].total = 2
    /\ summary[1].failures = 0

(***************************************************************************)
(* C12: the details of a failed or error case                              *)
(***************************************************************************)
\* The text of the marker that decides the status of a failed or error
\* case: the first failure child, or without one the first error child.
MarkerText(case_elem) ==
    IF HasChild(case_elem, "failure")
    THEN Tagged(case_elem.children, "failure")[1].text
    ELSE Tagged(case_elem.children, "error")[1].text

HasMarker(case_elem) == HasChild(case_elem, "failure") \/ HasChild(case_elem, "error")

NoText(text) == text = None \/ text[1] = <<>>

\* The details of the failed and error cases, given what an empty or absent
\* marker text becomes in junit_parser2 and in junit_parser1.
DetailsAre(empty2, empty1) ==
    /\ IsParser2 =>
         \A i \in 1..Len(test_suites) :
            \A j \in 1..Len(test_suites[i].test_cases) :
               LET e  == CaseElemsOf(SuiteElemsOf(root)[i])[j]
                   tc == test_suites[i].test_cases[j]
               IN  HasMarker(e) =>
                      tc.failure_details =
                         Some(IF NoText(MarkerText(e)) THEN empty2 ELSE MarkerText(e)[1])
    /\ (IsParser1 /\ summary # None) =>
         \A j \in 1..Len(summary[1].results) :
            LET e == Tagged(root.children, "testcase")[j]
            IN  HasMarker(e) =>
                   summary[1].results[j].details =
                      IF NoText(MarkerText(e)) THEN empty1 ELSE MarkerText(e)[1]

\* C12 as amended: for every case with a failure or error marker the parsed
\* details are the marker's text, whole, when the text is not empty; an
\* empty or absent text becomes 'No details' in junit_parser2 and the empty
\* string in junit_parser1.
C12_DetailsOrPlaceholder == DetailsAre(<<"N", "o", " ", "d", "e", "t", "a", "i", "l", "s">>, <<>>)

\* C12 as stated: the details are the marker's text for every text, an
\* empty or absent text giving empty details.
C12_DetailsVerbatim == DetailsAre(<<>>, <<>>)

\* C12 witness: junit_parser2 has parsed a case whose error marker has no
\* text, and its details are the ten characters of 'No details'.
C12_Witness ==
    /\ IsParser2 /\ ParseReturned
    /\ \E i \in 1..Len(test_suites) :
         \E j \in 1..Len(test_suites[i].test_cases) :
            LET e == CaseElemsOf(SuiteElemsOf(root)[i])[j]
            IN  /\ ~HasChild(e, "failure") /\ HasChild(e, "error")
                /\ MarkerText(e) = None
                /\ test_suites[i].test_cases[j].status = "error"
                /\ Len(test_suites[i].test_cases[j].failure_details[1]) = 10

(***************************************************************************)
(* C13: rendering only reads the list of suites                            *)
(***************************************************************************)
\* generate_report has been entered: it is running, has returned, or has
\* been left by an exception.
GenerateEntered == IsParser2 /\ ParseReturned /\ pc \notin {"return", "returned"}

\* C13: from the call of generate_report on, whether it completes or fails,
\* the list of suites is the list parse returned: the same suites in the
\* same order, every field of every TestSuite and of every TestCase with
\* the value it had before the call, the failure_details of the cases whose
\* details were shown truncated included.
C13_RenderingOnlyReads ==
    GenerateEntered =>
        LET before == calls[1].value
        IN  /\ Len(test_suites) = Len(before)
            /\ \A i \in 1..Len(before) :
                 /\ \A f \in {"name", "tests", "failures", "errors", "skipped", "time"} :
                       test_suites[i][f] = before[i][f]
                 /\ Len(test_suites[i].test_cases) = Len(before[i].test_cases)
                 /\ \A j \in 1..Len(before[i].test_cases) :
                       test_suites[i].test_cases[j] = before[i].test_cases[j]

\* C13 witness: generate_report has failed after a suite section showed
\* details of 503 stored characters cut to 500 and '...', and the stored
\* details still have their 503 characters.
C13_Witness ==
    /\ GenerateEntered /\ exit_code = Some(1) /\ saved = None
    /\ \E i \in 1..Len(Paragraphs("details")) :
         /\ Len(RenderedFailedCases[i].failure_details[1]) = 503
         /\ SubSeq(Paragraphs("details")[i].details, 501, 503) = <<".", ".", ".">>
         /\ Paragraphs("details")[i].details # RenderedFailedCases[i].failure_details[1]

(***************************************************************************)
(* C14: the order of the report and the single save                        *)
(***************************************************************************)
\* The part of the report a paragraph belongs to: 1 title, 2 executive
\* summary, 3 suite sections, 4 footer; 0 for the spacing paragraphs, which
\* every part but the footer ends with.
PartOf(kind) ==
    IF kind \in {"title", "timestamp"} THEN 1
    ELSE IF kind \in {"heading", "summary_table", "success_rate"} THEN 2
    ELSE IF kind \in {"page_break", "footer"} THEN 4
    ELSE IF kind = "spacing" THEN 0
    ELSE 3

InOrder(d) ==
    \A i, j \in 1..Len(d) :
       (i < j /\ PartOf(d[i].kind) # 0 /\ PartOf(d[j].kind) # 0)
          => PartOf(d[i].kind) <= PartOf(d[j].kind)

Count(d, kind) == Len(SelectSeq(d, LAMBDA p : p.kind = kind))

Complete(d) ==
    /\ Count(d, "title") = 1
    /\ Count(d, "summary_table") = 1
    /\ Count(d, "suite_heading") = Len(test_suites)
    /\ Count(d, "footer") = 1
    /\ d[1].kind = "title"
    /\ d[Len(d)].kind = "footer"

\* C14: the report is built in the order title, executive summary, suite
\* sections, footer, each part at most once while it is built and exactly
\* once (one section per suite) in what is saved; the document is saved
\* only after the footer, as it then is; and a run in which parse or a
\* rendering step fails, or that ends with status 1, has saved nothing.
C14_OrderAndSaveLast ==
    IsParser2 =>
        /\ InOrder(doc)
        /\ Count(doc, "title") <= 1
        /\ Count(doc, "summary_table") <= 1
        /\ Count(doc, "footer") <= 1
        /\ Count(doc, "suite_heading") <= Len(test_suites)
        /\ saved # None =>
              /\ pc \in {"generated", "exit"}
              /\ saved[1] = doc
              /\ Complete(doc)
              /\ ParseReturned
        /\ (calls # <<>> /\ calls[1].raised) => (doc = <<>> /\ saved = None)
        /\ (pc = "raised" \/ exit_code = Some(1)) => saved = None
        /\ Rendering /\ pc # "generated" => saved = None

\* C14 witness: generate_report was left by an exception after the title,
\* the summary and a suite section and before the footer, the run ended
\* with status 1, and nothing was saved.
C14_Witness ==
    /\ IsParser2 /\ exit_code = Some(1)
    /\ Count(doc, "suite_heading") = 1 /\ Len(test_suites) = 2
    /\ Count(doc, "footer") = 0
    /\ saved = None

(***************************************************************************)
(* C15: the exit status of the junit_parser2 command                       *)
(***************************************************************************)
\* What a failed run prints: the message of line 400, the message of line
\* 431, or, for the OSError of mkdir (line 407, outside the try), the
\* interpreter's report of the uncaught exception.
FailureMessages ==
    {"Error: input file does not exist", "Error: exception", "Traceback: OSError"}

Printed(lines) == \E i \in 1..Len(stdout) : stdout[i] \in lines

CliExited == IsParser2 /\ pc = "exit"

\* A step of the run failed: the input is missing, the output directory was
\* not created, parse raised, or generate_report raised while rendering or
\* saving.
StepFailed ==
    \/ ~args.exists
    \/ outdir # "created"
    \/ (calls # <<>> /\ calls[1].raised)
    \/ saved = None

C16_MissingInputFirst ==
    (IsParser2 /\ ~args.exists) =>
        /\ pc \in {"main", "exit"}
        /\ outdir = "untouched"
        /\ calls = <<>> /\ root = NoRoot /\ test_suites = <<>>
        /\ doc = <<>> /\ saved = None
        /\ pc = "main" => (exit_code = None /\ stdout = <<>>)
        /\ pc = "exit" =>
              /\ exit_code = Some(1)
              /\ stdout = <<"Error: input file does not exist">>

\* C16 witness: the input path does not exist and has no .xml suffix; the
\* run has ended with status 1 and the error message, without the warning,
\* the directory, a parse call or a document.
C16_Witness ==
    /\ IsParser2 /\ ~args.exists /\ ~args.xml_suffix
    /\ pc = "exit" /\ exit_code = Some(1)
    /\ stdout = <<"Error: input file does not exist">>
    /\ outdir = "untouched" /\ calls = <<>> /\ doc = <<>> /\ saved = None

(***************************************************************************)
(* C17: errors and the warning of the junit_parser2 command                *)
(***************************************************************************)
WarningMessages == {"Warning: no .xml extension"}

\* C17 as amended: every error the command reports is fatal: once a failure
\* message is printed the run has ended with status 1 and no report; the
\* warning about an input name without .xml is not: it is printed for every
\* existing input with such a name, and no run ends with status 1 on the
\* warning alone.
C17_ErrorsFatalWarningNot ==
    IsParser2 =>
        /\ Printed(FailureMessages) =>
              (pc = "exit" /\ exit_code = Some(1) /\ saved = None)
        /\ Printed(WarningMessages) <=> (args.exists /\ ~args.xml_suffix /\ pc # "main")
        /\ (pc = "exit" /\ exit_code = Some(1)) => Printed(FailureMessages)

\* C17 as stated: a run in which the command has printed a diagnostic, an
\* error or a warning, saves no report and ends with status 1.
C17_EveryDiagnosticFatal ==
    (IsParser2 /\ Printed(FailureMessages \cup WarningMessages)) =>
        /\ saved = None
        /\ pc = "exit" => exit_code = Some(1)

\* C17 witness: the warning was printed, and the run has saved the report
\* and ended with status 0.
C17_Witness ==
    /\ IsParser2 /\ Printed(WarningMessages)
    /\ pc = "exit" /\ exit_code = Some(0)
    /\ saved # None
    /\ stdout[Len(stdout)] = "Report successfully generated"

(***************************************************************************)
(* C18: the summary line of a suite section                                *)
(***************************************************************************)
Labels(runs) == [r \in 1..Len(runs) |-> runs[r].label]

Clause(label, shown) == IF shown THEN <<label>> ELSE <<>>

\* C18: the summary line of every suite section has the clauses Tests and
\* Passed first and Time last, and between them Failed, Errors and Skipped
\* in this order, each exactly when the suite's count of that kind is
\* greater than zero.
C18_SummaryLineClauses ==
    IsParser2 =>
        LET lines == Paragraphs("suite_summary")
        IN  /\ Len(lines) = Len(RenderedSuites)
            /\ \A i \in 1..Len(lines) :
                 LET s == RenderedSuites[i]
                 IN  Labels(lines[i].runs) =
                        <<"Tests", "Passed">>
                        \o Clause("Failed", s.failures > 0)
                        \o Clause("Errors", s.errors > 0)
                        \o Clause("Skipped", s.skipped > 0)
                        \o <<"Time">>

\* C18 witness: a suite that declares failures="0", errors greater than
\* zero and no skipped attribute has the summary line Tests, Passed,
\* Errors, Time.
C18_Witness ==
    /\ IsParser2 /\ Len(Paragraphs("suite_summary")) = 1
    /\ ~Absent(SuiteElemsOf(root)[1], "failures")
    /\ Absent(SuiteElemsOf(root)[1], "skipped")
    /\ RenderedSuites[1].failures = 0 /\ RenderedSuites[1].errors > 0
    /\ Labels(Paragraphs("suite_summary")[1].runs) = <<"Tests", "Passed", "Errors", "Time">>

(***************************************************************************)
(* C19, C20: the parts of a suite section                                  *)
(***************************************************************************)
\* The indices of the paragraphs of a kind, in document order.
Positions(kind) ==
    SelectSeq([k \in 1..Len(doc) |-> k], LAMBDA k : doc[k].kind = kind)

\* The paragraphs of the i-th suite section: from its heading to the next
\* heading, or to the footer, or to the end of what is built.
Section(i) ==
    LET heads == Positions("suite_heading")
        break == Positions("page_break")
        last  == IF i < Len(heads) THEN heads[i + 1] - 1
                 ELSE IF break # <<>> THEN break[1] - 1
                 ELSE Len(doc)
    IN  SubSeq(doc, heads[i], last)

OfKind(sec, kinds) == SelectSeq(sec, LAMBDA p : p.kind \in kinds)

FailedKinds == {"failed_header", "failed_test", "message", "details"}

ListingKinds == {"listing_header", "table", "bullet"}

\* C19: in every suite section the failed/error sub-list names exactly the
\* suite's cases of status failed or error, each once and in the order of
\* the suite, whatever counts the suite declares; its header is there
\* exactly when there is such a case, before the first of them; and the
\* whole sub-list comes before the listing of the cases.
C19_FailedSubList ==
    IsParser2 =>
        \A i \in 1..Len(RenderedSuites) :
           LET sec    == Section(i)
               failed == FailedOrError(RenderedSuites[i].test_cases)
               shown  == OfKind(sec, {"failed_test"})
           IN  /\ Len(shown) = Len(failed)
               /\ \A j \in 1..Len(failed) :
                     /\ shown[j].classname = failed[j].classname
                     /\ shown[j].name = failed[j].name
               /\ Len(OfKind(sec, {"failed_header"})) = (IF failed # <<>> THEN 1 ELSE 0)
               /\ \A a, b \in 1..Len(sec) :
                     /\ (sec[a].kind = "failed_header" /\ sec[b].kind = "failed_test")
                           => a < b
                     /\ (sec[a].kind \in FailedKinds /\ sec[b].kind \in ListingKinds)
                           => a < b

\* C19 witness: a suite without failures and errors attributes, whose only
\* case has the status error, has a section with the header, that case,
\* and after them the listing.
C19_Witness ==
    /\ IsParser2 /\ Len(RenderedSuites) = 1
    /\ RenderedSuites[1].failures = 0 /\ RenderedSuites[1].errors = 0
    /\ Len(RenderedSuites[1].test_cases) = 1
    /\ RenderedSuites[1].test_cases[1].status = "error"
    /\ Len(OfKind(Section(1), {"failed_header"})) = 1
    /\ Len(OfKind(Section(1), {"failed_test"})) = 1
    /\ Len(OfKind(Section(1), {"bullet"})) = 1

\* The status a listing shows for a case: the table writes it in capitals,
\* the list marks it with an icon.
StatusCell(status) ==
    IF status = "passed" THEN "PASSED"
    ELSE IF status = "failed" THEN "FAILED"
    ELSE IF status = "error" THEN "ERROR"
    ELSE "SKIPPED"

IconFits(icon, status) ==
    /\ icon = "check" <=> status = "passed"
    /\ icon = "cross" <=> status \in {"failed", "error"}
    /\ icon = "dash" <=> status = "skipped"

\* C20: the section of a suite of n parsed cases lists them in one form: a
\* table of n rows when n > 10, a bulleted list of n entries when
\* 1 <= n <= 10, and neither a listing nor its header when n = 0; row and
\* entry j are case j of the suite with that case's status.
C20_ListingForm ==
    IsParser2 =>
        \A i \in 1..Len(RenderedSuites) :
           LET sec     == Section(i)
               cases   == RenderedSuites[i].test_cases
               n       == Len(cases)
               tables  == OfKind(sec, {"table"})
               bullets == OfKind(sec, {"bullet"})
               headers == OfKind(sec, {"listing_header"})
           IN  /\ Len(tables) = (IF n > 10 THEN 1 ELSE 0)
               /\ Len(bullets) = (IF 1 <= n /\ n <= 10 THEN n ELSE 0)
               /\ Len(headers) = (IF n = 0 THEN 0 ELSE 1)
               /\ \A t \in 1..Len(tables) :
                     /\ Len(tables[t].rows) = n
                     /\ \A j \in 1..n :
                          /\ tables[t].rows[j].name = cases[j].name
                          /\ tables[t].rows[j].classname = cases[j].classname
                          /\ tables[t].rows[j].status = StatusCell(cases[j].status)
               /\ \A j \in 1..Len(bullets) :
                     /\ bullets[j].name = cases[j].name
                     /\ bullets[j].classname = cases[j].classname
                     /\ IconFits(bullets[j].icon, cases[j].status)

\* C20 witness: a suite of exactly 10 cases has a section with a bulleted
\* list of 10 entries and no table.
C20_Witness ==
    /\ IsParser2 /\ Len(RenderedSuites) = 1
    /\ Len(RenderedSuites[1].test_cases) = 10
    /\ Len(OfKind(Section(1), {"bullet"})) = 10
    /\ OfKind(Section(1), {"table"}) = <<>>
    /\ Len(OfKind(Section(1), {"listing_header"})) = 1

(***************************************************************************)
(* C21: the colour of a status                                             *)
(***************************************************************************)
\* The status a coloured run of a summary line or of a junit_parser1 case
\* paragraph stands for.
StatusOfLabel(label) ==
    IF label = "Passed" THEN "passed"
    ELSE IF label \in {"Failed", "Failure"} THEN "failed"
    ELSE IF label \in {"Errors", "Error"} THEN "error"
    ELSE IF label = "Skipped" THEN "skipped"
    ELSE ""

StatusOfCell(text) ==
    IF text = "PASSED" THEN "passed"
    ELSE IF text = "FAILED" THEN "failed"
    ELSE IF text = "ERROR" THEN "error"
    ELSE "skipped"

\* Every <<status, colour>> of the document: the coloured runs of the
\* summary lines and of the junit_parser1 case paragraphs, the names of the
\* failed-test details, the status cells of the tables and the icons of
\* the bulleted lists.
ColourUses ==
    UNION {{<<StatusOfLabel(p.runs[r].label), p.runs[r].color>> : r \in 1..Len(p.runs)} :
             p \in {q \in {doc[k] : k \in 1..Len(doc)} :
                       q.kind \in {"suite_summary", "case"}}}
    \cup {<<RenderedFailedCases[i].status, Paragraphs("failed_test")[i].color>> :
             i \in 1..Len(Paragraphs("failed_test"))}
    \cup UNION {{<<StatusOfCell(t.rows[j].status), t.rows[j].color>> : j \in 1..Len(t.rows)} :
                  t \in {doc[k] : k \in {m \in 1..Len(doc) : doc[m].kind = "table"}}}
    \cup UNION {{<<RenderedSuites[i].test_cases[j].status,
                   OfKind(Section(i), {"bullet"})[j].color>> :
                     j \in 1..Len(OfKind(Section(i), {"bullet"}))} :
                  i \in 1..Len(RenderedSuites)}

ColourClass(status) == IF status = "error" THEN "failed" ELSE status

\* C21: in the report of either script, two coloured items have the same
\* colour exactly when their statuses are the same or are failed and
\* error: passed, failed/error and skipped each have one colour of their
\* own, in every section.
C21_OneColourMapping ==
    \A u, v \in {w \in ColourUses : w[1] # "" /\ w[2] # NoColor} :
       (ColourClass(u[1]) = ColourClass(v[1])) <=> (u[2] = v[2])

(***************************************************************************)
(* C22: the message fields of a TestCase                                   *)
(***************************************************************************)
\* The marker that decides the status of a case element that has one.
DecidingMarker(case_elem) ==
    IF HasChild(case_elem, "failure") THEN Tagged(case_elem.children, "failure")[1]
    ELSE IF HasChild(case_elem, "error") THEN Tagged(case_elem.children, "error")[1]
    ELSE Tagged(case_elem.children, "skipped")[1]

\* The message fields of TestCase tc parsed from case element e.
MessageFieldsFit(e, tc) ==
    /\ (tc.failure_message # None) <=> (tc.status \in {"failed", "error"})
    /\ (tc.failure_details # None) <=> (tc.status \in {"failed", "error"})
    /\ (tc.skipped_message # None) <=> (tc.status = "skipped")
    /\ tc.status = "passed" =>
          (tc.failure_message = None /\ tc.failure_details = None
           /\ tc.skipped_message = None)
    /\ tc.status \in {"failed", "error"} =>
          /\ tc.failure_details[1] # <<>>
          /\ Absent(DecidingMarker(e), "message") => tc.failure_message[1] = "No message"
          /\ ~Absent(DecidingMarker(e), "message") =>
                tc.failure_message[1] = DecidingMarker(e).attrib["message"]
    /\ tc.status = "skipped" =>
          /\ Absent(DecidingMarker(e), "message") => tc.skipped_message[1] = "Test skipped"
          /\ ~Absent(DecidingMarker(e), "message") =>
                tc.skipped_message[1] = DecidingMarker(e).attrib["message"]

SomeUnconvertible ==
    \E i \in 1..Len(SuiteElemsOf(xml.root)) : SuiteUnconvertible(SuiteElemsOf(xml.root)[i])

\* C23: on a well-formed file with a testsuite or testsuites root, a call
\* of parse raises exactly when a count of a suite or the time of a suite
\* or of a testcase does not convert, whichever suite it is in: the call
\* then returns nothing, and nothing is rendered or saved; a call that
\* returns gives one suite per testsuite element of the root and, in each,
\* one case per testcase child of that element.
C23_AllOrNothing ==
    (IsParser2 /\ xml.wellformed /\ ~UnknownRoot) =>
        /\ \A k \in DOMAIN calls :
              /\ calls[k].raised <=> SomeUnconvertible
              /\ calls[k].raised => calls[k].value = "ValueError"
              /\ ~calls[k].raised =>
                    /\ Len(calls[k].value) = Len(SuiteElemsOf(root))
                    /\ \A i \in 1..Len(calls[k].value) :
                          Len(calls[k].value[i].test_cases)
                             = Len(CaseElemsOf(SuiteElemsOf(root)[i]))
        /\ SomeUnconvertible =>
              /\ pc \notin {"return", "returned"} /\ ~Rendering
              /\ doc = <<>> /\ saved = None

\* C23 witness: the second of two suites has a count that does not
\* convert, the first has none; the first was parsed, and the call raised.
C23_Witness ==
    /\ IsParser2 /\ root.tag = "testsuites"
    /\ Len(SuiteElemsOf(root)) = 2
    /\ ~SuiteUnconvertible(SuiteElemsOf(root)[1])
    /\ SuiteUnconvertible(SuiteElemsOf(root)[2])
    /\ Len(test_suites) = 1
    /\ calls # <<>> /\ calls[1].raised
    /\ exit_code = Some(1) /\ saved = None

(***************************************************************************)
(* C24: a passed count below zero                                          *)
(***************************************************************************)
ShownCount(row) == IntOf(SummaryTable[row][2])

DeclaredOther ==
    SumField(test_suites, "failures") + SumField(test_suites, "errors")
    + SumField(test_suites, "skipped")

RateInRange == RenderedRate.num >= 0 /\ RenderedRate.num <= 100 * RenderedRate.den

\* The passed count of every rendered suite line, read back, is the
\* suite's tests less its failures, errors and skipped, and is below zero
\* exactly when these exceed the tests.
SuiteLinesUnclamped ==
    IsParser2 =>
        \A i \in 1..Len(Paragraphs("suite_summary")) :
           LET s      == RenderedSuites[i]
               passed == IntOf(RunsLabelled(Paragraphs("suite_summary")[i].runs,
                                            "Passed")[1].value)
           IN  /\ passed + s.failures + s.errors + s.skipped = s.tests
               /\ passed >= 0 <=> s.failures + s.errors + s.skipped <= s.tests

\* The same for the counts the executive summary shows.
AggregateUnclamped ==
    SummaryRendered =>
        /\ ShownCount(3) + ShownCount(4) + ShownCount(5) + ShownCount(6) = ShownCount(2)
        /\ ShownCount(2) = SumField(test_suites, "tests")
        /\ ShownCount(3) >= 0 <=> DeclaredOther <= SumField(test_suites, "tests")

\* C24 as amended: the passed counts are never clamped, so a passed count
\* is non-negative exactly when the declared failures, errors and skipped
\* do not exceed the declared tests.  The success rate is 0 when the total
\* of tests is not positive, whatever the passed count; when the total is
\* positive it lies in 0..100 exactly when 0 <= passed <= total, and it is
\* negative exactly when passed is.  A negative passed count always has
\* the lowest colour tier.
C24_UnclampedPassed ==
    /\ SuiteLinesUnclamped
    /\ AggregateUnclamped
    /\ SummaryRendered =>
         LET total  == SumField(test_suites, "tests")
             passed == ShownCount(3)
         IN  /\ RenderedRate.den > 0
             /\ total <= 0 => RenderedRate.num = 0
             /\ total > 0 =>
                   /\ RateInRange <=> (0 <= passed /\ passed <= total)
                   /\ RenderedRate.num < 0 <=> passed < 0
             /\ passed < 0 => RenderedRateColor = Red

\* Every declared count of every suite is at least zero.
AllCountsNonNegative ==
    \A i \in 1..Len(test_suites) : \A k \in CountKeys : test_suites[i][k] >= 0

\* C24 as stated: the passed counts are never clamped; the aggregate passed
\* count is non-negative and the success rate in 0..100 exactly when the
\* declared failures, errors and skipped do not exceed the declared tests
\* with all counts non-negative; otherwise the passed count and the success
\* rate shown are negative, in the lowest colour tier.
C24_NegativeRate ==
    /\ SuiteLinesUnclamped
    /\ SummaryRendered =>
         LET fits == DeclaredOther <= SumField(test_suites, "tests") /\ AllCountsNonNegative
         IN  /\ ShownCount(3) + ShownCount(4) + ShownCount(5) + ShownCount(6)
                   = ShownCount(2)
             /\ (ShownCount(3) >= 0 /\ RateInRange) <=> fits
             /\ ~fits => /\ ShownCount(3) < 0
                         /\ RenderedRate.num < 0
                         /\ RenderedRateColor = Red

\* C24 witness: one suite declares no tests and one failure; the summary
\* shows the passed count -1 and the success rate 0, in red.
C24_Witness ==
    /\ SummaryRendered /\ Len(test_suites) = 1
    /\ Absent(SuiteElemsOf(root)[1], "tests")
    /\ test_suites[1].failures = 1 /\ test_suites[1].errors = 0
    /\ test_suites[1].skipped = 0
    /\ SummaryTable[3] = <<"Passed", <<"-", "1">> >>
    /\ RenderedRate.num = 0
    /\ RenderedRateColor = Red

====
